---- MODULE Spec2Model ----
(***************************************************************************)
(* The GitGold append-only ledger (crates/gitgold-ledger/src/store.rs and  *)
(* transaction.rs) as a state machine.                                     *)
(*                                                                         *)
(* State: the SQLite table `transactions` (db, rows in rowid order) and    *)
(* the fields of the Ledger value built over it (balances, supply,         *)
(* tx_ids).  Operations: Ledger::append and closing/reopening the ledger   *)
(* (Ledger::open -> init -> replay).                                       *)
(*                                                                         *)
(* Specifications:                                                         *)
(*   Spec            append and reopen on one ledger, calls atomic         *)
(*   SpecConcurrent  append entered by two callers, step by step           *)
(*   SpecResubmit    append called repeatedly, effects counted per tx_id   *)
(*   SpecRetype      two transactions hashed, the second appended          *)
(*   SpecStore       open on a table found on disk                         *)
(*   SpecSignable    signable_bytes / hash of two transactions             *)
(*   SpecMerkle      MerkleTree build / proof / verify_proof               *)
(*   SpecChallenge   a challenge round: create, validate                   *)
(*                                                                         *)
(* BalanceTracker, SupplyTracker, the key/hash primitives, the             *)
(* TransactionType serialisation, MerkleTree and the challenge crate live  *)
(* in files whose sources are not at hand; they are modelled from the      *)
(* specification (sections 4.3 to 4.7, 6).                                 *)
(***************************************************************************)
EXTENDS Integers, Sequences, FiniteSets, TLC

VARIABLES
    db,            \* rows of table `transactions`, in rowid (insertion) order
    balances,      \* Ledger.balances : address -> micro-units
    total_minted,  \* Ledger.supply.total_minted
    total_burned,  \* Ledger.supply.total_burned
    tx_ids,        \* Ledger.tx_ids : set of seen tx_id
    opened,        \* TRUE while a Ledger value exists (open/init returned Ok)
    lastTx,        \* argument of the last append call (NoTx after open)
    result,        \* return value of the last call
    calls,         \* frame: per caller, the append call it is in the middle
                   \* of; returned: the transactions of the calls that
                   \* returned, in the order of their return
    input,         \* arguments handed to a pure function under study
    output,        \* what the function returned for them
    apply_count    \* per tx_id: the append calls that changed balances or
                   \* supply for it, counted where resubmission is studied

vars == <<db, balances, total_minted, total_burned, tx_ids, opened, lastTx,
          result, calls, input, output, apply_count>>

----------------------------------------------------------------------------
(* Bounds of the model                                                     *)

\* largest amount carried by a generated transaction
MaxAmount == 2

\* the supply cap configured in SupplyTracker::default_config, scaled down
SupplyCap == 2

----------------------------------------------------------------------------
(* Addresses, keys, hex and signatures (gitgold_core / gitgold_crypto)     *)

\* Address::system()
system == "system"

\* The two key pairs of the model and the hex text of their public keys.
Keys == {"ka", "kb"}
NoKey == "none"
PubHexA == "a1"
PubHexB == "b2"
HexOf(k) == IF k = "ka" THEN PubHexA ELSE PubHexB

\* hex::decode on the strings of the model: the decoded bytes, or HexErr for
\* text that is not hex.  The empty string decodes to no bytes.
HexErr == <<-1>>
hex_decode(s) ==
    CASE s = ""      -> <<>>
      [] s = PubHexA -> <<161>>
      [] s = PubHexB -> <<178>>
      [] OTHER       -> HexErr

\* sha256_hex of public-key bytes: the address of the key (collision free on
\* the model's keys; the digest of the empty input is nobody's address here).
AddrA == "addrA"
AddrB == "addrB"
sha256_hex(bytes) ==
    CASE bytes = <<161>> -> AddrA
      [] bytes = <<178>> -> AddrB
      [] OTHER           -> "e3b0"

\* KeyPair::address
AddrOf(k) == sha256_hex(hex_decode(HexOf(k)))

Addresses == {system, AddrA, AddrB}

\* A signature field: hex text that decodes (hex = TRUE) to the Ed25519
\* signature made with `signer`'s secret key over `msg`, or text that is not hex.
Sign(k, msg) == [hex |-> TRUE, signer |-> k, msg |-> msg]
SigEmpty     == [hex |-> TRUE, signer |-> NoKey, msg |-> ""]
SigNotHex    == [hex |-> FALSE, signer |-> NoKey, msg |-> ""]

\* PublicKey::verify: the signature was made over exactly these bytes by the
\* key pair whose public key has these bytes.
verify(pubkey_bytes, msg, sig) ==
    /\ sig.signer \in Keys
    /\ hex_decode(HexOf(sig.signer)) = pubkey_bytes
    /\ sig.msg = msg

----------------------------------------------------------------------------
(* Transactions (transaction.rs)                                           *)

TxTypes == {"Mint", "Burn", "Transfer", "PushFee", "PullFee",
            "StorageReward", "ChallengeReward", "BandwidthReward"}

TransferLike == TxTypes \ {"Mint", "Burn"}

\* signable_bytes with the transaction type among the signed fields
signable_bytes_WithType(tx) ==
    tx.tx_id \o tx.tx_type \o tx.from \o tx.to \o ToString(tx.amount)
        \o ToString(tx.timestamp) \o tx.metadata \o tx.pubkey

\* Transaction::signable_bytes: the Display texts of the seven fields, one
\* after the other with nothing between them.
signable_bytes(tx) ==
    tx.tx_id \o tx.from \o tx.to \o ToString(tx.amount)
        \o ToString(tx.timestamp) \o tx.metadata \o tx.pubkey

\* Transaction::hash: SHA-256 of signable_bytes (collision free: the digest
\* is written as the text it was taken of)
hash(tx) == "sha256(" \o signable_bytes(tx) \o ")"

NoTx == [tx_id |-> "", tx_type |-> "Transfer", from |-> "", to |-> "",
         amount |-> 0, metadata |-> "", timestamp |-> 0,
         signature |-> SigEmpty, pubkey |-> ""]

\* The rows test helpers build carry this timestamp and empty JSON metadata.
Timestamp == 1700000000
EmptyMeta == "{}"

----------------------------------------------------------------------------
(* BalanceTracker and SupplyTracker (crate::balance, crate::supply)        *)
(* A memory m is the derived state of a Ledger:                           *)
(*   [balances, total_minted, total_burned].                              *)
(* Fallible operations return [err, m]; err = "Ok" on success, and on     *)
(* failure m is the memory as the failing call left it.                    *)

ZeroBalances == [a \in Addresses |-> 0]

\* BalanceTracker::new() and SupplyTracker::default_config()
EmptyMem == [balances |-> ZeroBalances, total_minted |-> 0, total_burned |-> 0]

\* BalanceTracker::credit
credit(m, addr, amount) ==
    [m EXCEPT !.balances[addr] = @ + amount]

\* BalanceTracker::debit: fails when the balance would go negative
debit(m, addr, amount) ==
    IF m.balances[addr] < amount
    THEN [err |-> "InsufficientBalance", m |-> m]
    ELSE [err |-> "Ok", m |-> [m EXCEPT !.balances[addr] = @ - amount]]

\* BalanceTracker::transfer: debit `from`, then credit `to`
transfer(m, from, to, amount) ==
    LET d == debit(m, from, amount)
    IN  IF d.err # "Ok" THEN d
        ELSE [err |-> "Ok", m |-> credit(d.m, to, amount)]

\* SupplyTracker::mint: fails beyond the supply cap
mint(m, amount) ==
    IF m.total_minted + amount > SupplyCap
    THEN [err |-> "SupplyCapExceeded", m |-> m]
    ELSE [err |-> "Ok", m |-> [m EXCEPT !.total_minted = @ + amount]]

\* SupplyTracker::burn
burn(m, amount) ==
    [m EXCEPT !.total_burned = @ + amount]

----------------------------------------------------------------------------
(* Ledger::apply_tx                                                        *)

\* supply.mint(amount)?; balances.credit(to, amount)
MintAndCredit(m, tx) ==
    LET s == mint(m, tx.amount)
    IN  IF s.err # "Ok" THEN s
        ELSE [err |-> "Ok", m |-> credit(s.m, tx.to, tx.amount)]

\* balances.debit(from, amount)?; supply.burn(amount)
DebitAndBurn(m, tx) ==
    LET d == debit(m, tx.from, tx.amount)
    IN  IF d.err # "Ok" THEN d
        ELSE [err |-> "Ok", m |-> burn(d.m, tx.amount)]

\* apply_tx with the system branch of a transfer doing what its comment says,
\* "just credit", without supply.mint
apply_tx_RewardNoMint(m, tx) ==
    CASE tx.tx_type = "Mint" -> MintAndCredit(m, tx)
      [] tx.tx_type = "Burn" -> DebitAndBurn(m, tx)
      [] tx.tx_type \in TransferLike ->
            IF tx.from = system
            THEN [err |-> "Ok", m |-> credit(m, tx.to, tx.amount)]
            ELSE transfer(m, tx.from, tx.to, tx.amount)

\* apply_tx with the Burn branch subtracting without the balance check
apply_tx_BurnUnchecked(m, tx) ==
    CASE tx.tx_type = "Mint" -> MintAndCredit(m, tx)
      [] tx.tx_type = "Burn" ->
            [err |-> "Ok",
             m |-> burn([m EXCEPT !.balances[tx.from] = @ - tx.amount], tx.amount)]
      [] tx.tx_type \in TransferLike ->
            IF tx.from = system
            THEN MintAndCredit(m, tx)
            ELSE transfer(m, tx.from, tx.to, tx.amount)

\* apply_tx with the Mint branch dropping the result of supply.mint
apply_tx_MintIgnoresCap(m, tx) ==
    CASE tx.tx_type = "Mint" ->
            [err |-> "Ok", m |-> credit(mint(m, tx.amount).m, tx.to, tx.amount)]
      [] tx.tx_type = "Burn" -> DebitAndBurn(m, tx)
      [] tx.tx_type \in TransferLike ->
            IF tx.from = system
            THEN MintAndCredit(m, tx)
            ELSE transfer(m, tx.from, tx.to, tx.amount)

\* apply_tx with the Burn branch also crediting `to`
apply_tx_BurnCreditsTo(m, tx) ==
    CASE tx.tx_type = "Mint" -> MintAndCredit(m, tx)
      [] tx.tx_type = "Burn" ->
            LET r == DebitAndBurn(m, tx)
            IN  IF r.err # "Ok" THEN r
                ELSE [err |-> "Ok", m |-> credit(r.m, tx.to, tx.amount)]
      [] tx.tx_type \in TransferLike ->
            IF tx.from = system
            THEN MintAndCredit(m, tx)
            ELSE transfer(m, tx.from, tx.to, tx.amount)

\* apply_tx with the non-system transfer checking the balance of `from` but
\* only crediting `to`
apply_tx_TransferNoDebit(m, tx) ==
    CASE tx.tx_type = "Mint" -> MintAndCredit(m, tx)
      [] tx.tx_type = "Burn" -> DebitAndBurn(m, tx)
      [] tx.tx_type \in TransferLike ->
            IF tx.from = system
            THEN MintAndCredit(m, tx)
            ELSE IF debit(m, tx.from, tx.amount).err # "Ok"
                 THEN debit(m, tx.from, tx.amount)
                 ELSE [err |-> "Ok", m |-> credit(m, tx.to, tx.amount)]

\* apply_tx with the Mint branch crediting `to` before supply.mint is tried
apply_tx_CreditBeforeMint(m, tx) ==
    CASE tx.tx_type = "Mint" ->
            LET credited == credit(m, tx.to, tx.amount)
                s == mint(credited, tx.amount)
            IN  s
      [] tx.tx_type = "Burn" -> DebitAndBurn(m, tx)
      [] tx.tx_type \in TransferLike ->
            IF tx.from = system
            THEN MintAndCredit(m, tx)
            ELSE transfer(m, tx.from, tx.to, tx.amount)

apply_tx(m, tx) ==
    CASE tx.tx_type = "Mint" -> MintAndCredit(m, tx)
      [] tx.tx_type = "Burn" -> DebitAndBurn(m, tx)
      [] tx.tx_type \in TransferLike ->
            IF tx.from = system
            THEN MintAndCredit(m, tx)
            ELSE transfer(m, tx.from, tx.to, tx.amount)

----------------------------------------------------------------------------
(* Persistence: the rows of table `transactions`                           *)

\* serde_json::to_string(&tx.tx_type), quotes trimmed: the lowercase name
TxTypeStr(t) ==
    CASE t = "Mint"            -> "mint"
      [] t = "Burn"            -> "burn"
      [] t = "Transfer"        -> "transfer"
      [] t = "PushFee"         -> "pushfee"
      [] t = "PullFee"         -> "pullfee"
      [] t = "StorageReward"   -> "storagereward"
      [] t = "ChallengeReward" -> "challengereward"
      [] t = "BandwidthReward" -> "bandwidthreward"

\* serde_json::from_str of the quoted column text, .unwrap_or(Transfer)
ParseTxType(s) ==
    IF \E t \in TxTypes : TxTypeStr(t) = s
    THEN CHOOSE t \in TxTypes : TxTypeStr(t) = s
    ELSE "Transfer"

\* texts of the metadata column that serde_json parses; a JSON value is kept
\* as its text
ValidJson(s) == s \in {EmptyMeta, "[]"}

\* serde_json::from_str(&metadata_str).unwrap_or(json!({}))
ParseMetadata(s) == IF ValidJson(s) THEN s ELSE EmptyMeta

\* the parameters of the INSERT statement of append
RowOf(tx) ==
    [tx_id |-> tx.tx_id, tx_type |-> TxTypeStr(tx.tx_type),
     from_addr |-> tx.from, to_addr |-> tx.to, amount |-> tx.amount,
     metadata |-> tx.metadata, timestamp |-> tx.timestamp,
     signature |-> tx.signature, pubkey |-> tx.pubkey]

\* the row mapping closure of load_all_txs
TxOfRow(row) ==
    [tx_id |-> row.tx_id, tx_type |-> ParseTxType(row.tx_type),
     from |-> row.from_addr, to |-> row.to_addr, amount |-> row.amount,
     metadata |-> ParseMetadata(row.metadata), timestamp |-> row.timestamp,
     signature |-> row.signature, pubkey |-> row.pubkey]

\* load_all_txs reading the newest row first
load_all_txs_NewestFirst(rows) ==
    [i \in 1..Len(rows) |-> TxOfRow(rows[Len(rows) - i + 1])]

\* Ledger::load_all_txs: SELECT ... ORDER BY rowid
load_all_txs(rows) == [i \in 1..Len(rows) |-> TxOfRow(rows[i])]

\* tx_id column of the table (PRIMARY KEY)
RowIds(rows) == {rows[i].tx_id : i \in 1..Len(rows)}

\* Ledger::replay over the first n loaded transactions, from memory m0:
\* apply each in order, stop at the first error.
RECURSIVE ReplayFrom(_, _, _)
ReplayFrom(txs, n, m0) ==
    IF n = 0 THEN [err |-> "Ok", m |-> m0]
    ELSE LET before == ReplayFrom(txs, n - 1, m0)
         IN  IF before.err # "Ok" THEN before
             ELSE apply_tx(before.m, txs[n])

\* Ledger::init + replay: the memory a fresh Ledger derives from the table
replay(rows) == ReplayFrom(load_all_txs(rows), Len(rows), EmptyMem)

----------------------------------------------------------------------------
(* MerkleTree (crate::merkle), after section 4.3 of the specification.     *)
(* A hash is a text; SHA-256 is modelled as collision free by writing the  *)
(* hashed input out in the text.                                           *)

\* the largest leaf vector handed to MerkleTree::build
MaxLeaves == 5

\* leaf hashes handed to MerkleTree::build (sha256 of some data)
LeafHashes == {"a", "b"}

\* SHA-256(left || right)
hash_pair(left, right) == "H(" \o left \o "," \o right \o ")"

\* the root of the tree over no leaves: all zero
ZeroRoot == "0"

\* the level above with the last node of an odd level carried up unpaired
NextLevel_PromoteOdd(level) ==
    [j \in 1..((Len(level) + 1) \div 2) |->
        IF 2 * j <= Len(level)
        THEN hash_pair(level[2 * j - 1], level[2 * j])
        ELSE level[2 * j - 1]]

\* the level above: nodes paired left to right, the last node of an odd
\* level paired with itself
NextLevel(level) ==
    [j \in 1..((Len(level) + 1) \div 2) |->
        hash_pair(level[2 * j - 1],
                  IF 2 * j <= Len(level) THEN level[2 * j]
                                         ELSE level[2 * j - 1])]

\* the levels from `level` up to the root level, bottom-up
RECURSIVE LevelsFrom(_)
LevelsFrom(level) ==
    IF Len(level) <= 1 THEN <<level>>
    ELSE <<level>> \o LevelsFrom(NextLevel(level))

\* MerkleTree::build
build(leaves) == [leaves |-> leaves, levels |-> LevelsFrom(leaves)]

\* MerkleTree::root
root(tree) ==
    IF Len(tree.leaves) = 0 THEN ZeroRoot
    ELSE tree.levels[Len(tree.levels)][1]

\* MerkleTree::leaf_count
leaf_count(tree) == Len(tree.leaves)

\* the position (from 0) at level lv (from 1) of the ancestor of leaf `index`
RECURSIVE AncestorAt(_, _)
AncestorAt(index, lv) ==
    IF lv = 1 THEN index ELSE AncestorAt(index, lv - 1) \div 2

\* MerkleTree::proof(index), index counted from 0: the siblings bottom-up,
\* is_right telling that the sibling stands on the right
proof(tree, index) ==
    IF index >= leaf_count(tree)
    THEN [err |-> "IndexOutOfRange", path |-> <<>>]
    ELSE [err |-> "Ok",
          path |-> [lv \in 1..(Len(tree.levels) - 1) |->
            LET level == tree.levels[lv]
                pos   == AncestorAt(index, lv)
                sib   == IF pos % 2 = 0 THEN pos + 1 ELSE pos - 1
            IN  [sibling  |-> IF sib < Len(level) THEN level[sib + 1]
                                                  ELSE level[pos + 1],
                 is_right |-> pos % 2 = 0]]]

\* the hash folded upward over the first n steps of a proof
RECURSIVE FoldUp(_, _, _)
FoldUp(leaf, path, n) ==
    IF n = 0 THEN leaf
    ELSE LET below == FoldUp(leaf, path, n - 1)
         IN  IF path[n].is_right THEN hash_pair(below, path[n].sibling)
                                 ELSE hash_pair(path[n].sibling, below)

\* MerkleTree::verify_proof
verify_proof(leaf, path, expected_root) ==
    FoldUp(leaf, path, Len(path)) = expected_root

\* Ledger::merkle_tree: the tree over the hashes of load_all_txs
merkle_tree(rows) ==
    build([i \in 1..Len(rows) |-> hash(load_all_txs(rows)[i])])

\* Ledger::tx_count
tx_count == Cardinality(tx_ids)

----------------------------------------------------------------------------
(* The transactions offered to append                                      *)

TxIds == {"t1", "t2", "t3"}

\* a transaction as the test helpers mint_tx / transfer_tx build it before
\* signing: empty signature text
Unsigned(id, ty, from, to, amount, pubkey) ==
    [tx_id |-> id, tx_type |-> ty, from |-> from, to |-> to,
     amount |-> amount, metadata |-> EmptyMeta, timestamp |-> Timestamp,
     signature |-> SigEmpty, pubkey |-> pubkey]

\* tx.signature = hex::encode(kp.sign(&tx.signable_bytes()))
SignedBy(tx, k) == [tx EXCEPT !.signature = Sign(k, signable_bytes(tx))]

\* what a transaction does, apart from its id and its credentials
Shape(ty, from, to, amount) ==
    [tx_type |-> ty, from |-> from, to |-> to, amount |-> amount]

\* mints to AddrA and transfers from AddrA of every amount, and a burn
CoreShapes ==
    {Shape("Mint", system, AddrA, a) : a \in 1..MaxAmount}
    \cup {Shape("Transfer", AddrA, AddrB, a) : a \in 1..MaxAmount}
    \cup {Shape("Burn", AddrA, system, 1)}

\* of amount 1: the fees, paid by AddrA; the rewards, paid by the system; a
\* mint requested by AddrA; money sent to `system`
OtherShapes ==
    {Shape(ty, AddrA, AddrB, 1) : ty \in {"PushFee", "PullFee"}}
    \cup {Shape(ty, system, AddrB, 1) :
            ty \in {"StorageReward", "ChallengeReward", "BandwidthReward"}}
    \cup {Shape("Mint", AddrA, AddrA, 1), Shape("Transfer", AddrA, system, 1)}

\* the shape sh under the id `id`, with the credentials its sender would
\* give it: none for the system (mint_tx), pubkey and signature of the
\* sender's key otherwise (transfer_tx)
Honest(id, sh) ==
    IF sh.from = system
    THEN Unsigned(id, sh.tx_type, system, sh.to, sh.amount, "")
    ELSE LET k == CHOOSE k \in Keys : AddrOf(k) = sh.from
         IN  SignedBy(Unsigned(id, sh.tx_type, sh.from, sh.to, sh.amount,
                               HexOf(k)), k)

\* a transfer of AddrA's money with credentials that are not AddrA's
BadCredentials(id) ==
    LET asA == Unsigned(id, "Transfer", AddrA, AddrB, 1, PubHexA)
        asB == Unsigned(id, "Transfer", AddrA, AddrB, 1, PubHexB)
    IN  { SignedBy(asB, "kb"),                       \* forged `from`
          SignedBy(asA, "kb"),                       \* signed by another key
          [asA EXCEPT !.signature =
               Sign("ka", signable_bytes([asA EXCEPT !.amount = 2]))],
                                                     \* signed for other bytes
          [asA EXCEPT !.signature = SigNotHex],      \* signature not hex
          [asA EXCEPT !.pubkey = "zz"] }             \* pubkey not hex

\* every core shape under every id; the other shapes under the last id, bad
\* credentials under the first
Txs ==
    {Honest(id, sh) : id \in TxIds, sh \in CoreShapes}
    \cup {Honest("t3", sh) : sh \in OtherShapes}
    \cup BadCredentials("t1")

----------------------------------------------------------------------------
(* Ledger::append                                                          *)

Mem == [balances |-> balances, total_minted |-> total_minted,
        total_burned |-> total_burned]

SetMem(m) ==
    /\ balances' = m.balances
    /\ total_minted' = m.total_minted
    /\ total_burned' = m.total_burned

\* check_signature without the comparison of the derived address with `from`
check_signature_NoAddrCheck(tx) ==
    IF tx.from = system THEN "Ok"
    ELSE LET pubkey_bytes == hex_decode(tx.pubkey)
         IN  IF pubkey_bytes = HexErr THEN "InvalidTransaction"
             ELSE IF ~tx.signature.hex THEN "InvalidTransaction"
             ELSE IF ~verify(pubkey_bytes, signable_bytes(tx), tx.signature)
                  THEN "InvalidSignature"
             ELSE "Ok"

\* check_signature without the exemption of the system address: the empty
\* pubkey decodes to no bytes, whose digest is not "system"
check_signature_SystemToo(tx) ==
    LET pubkey_bytes == hex_decode(tx.pubkey)
    IN  IF pubkey_bytes = HexErr THEN "InvalidTransaction"
        ELSE IF sha256_hex(pubkey_bytes) # tx.from THEN "InvalidSignature"
        ELSE IF ~tx.signature.hex THEN "InvalidTransaction"
        ELSE IF ~verify(pubkey_bytes, signable_bytes(tx), tx.signature)
             THEN "InvalidSignature"
        ELSE "Ok"

\* the signature verification block of append: "Ok", or the error returned
check_signature(tx) ==
    IF tx.from = system THEN "Ok"
    ELSE LET pubkey_bytes == hex_decode(tx.pubkey)
         IN  IF pubkey_bytes = HexErr THEN "InvalidTransaction"
             ELSE IF sha256_hex(pubkey_bytes) # tx.from THEN "InvalidSignature"
             ELSE IF ~tx.signature.hex THEN "InvalidTransaction"
             ELSE IF ~verify(pubkey_bytes, signable_bytes(tx), tx.signature)
                  THEN "InvalidSignature"
             ELSE "Ok"

\* conn.execute(INSERT ...): fails on an I/O error (ioError) and on a
\* PRIMARY KEY conflict
InsertFails(rows, tx, ioError) == ioError \/ tx.tx_id \in RowIds(rows)

\* append without the duplicate check: a repeated tx_id is applied and only
\* the PRIMARY KEY of the table stops it
append_NoDupCheck(tx, ioError) ==
    LET sig     == check_signature(tx)
        applied == apply_tx(Mem, tx)
    IN  IF sig # "Ok"
        THEN /\ result' = sig
             /\ UNCHANGED <<db, balances, total_minted, total_burned, tx_ids>>
        ELSE IF applied.err # "Ok"
        THEN /\ result' = applied.err
             /\ SetMem(applied.m)
             /\ UNCHANGED <<db, tx_ids>>
        ELSE IF InsertFails(db, tx, ioError)
        THEN /\ result' = "Database"
             /\ SetMem(applied.m)
             /\ UNCHANGED <<db, tx_ids>>
        ELSE /\ result' = "Ok"
             /\ SetMem(applied.m)
             /\ db' = Append(db, RowOf(tx))
             /\ tx_ids' = tx_ids \cup {tx.tx_id}

\* append with the duplicate check moved before the signature verification
append_DupFirst(tx, ioError) ==
    LET sig     == check_signature(tx)
        applied == apply_tx(Mem, tx)
    IN  IF tx.tx_id \in tx_ids
        THEN /\ result' = "DuplicateTransaction"
             /\ UNCHANGED <<db, balances, total_minted, total_burned, tx_ids>>
        ELSE IF sig # "Ok"
        THEN /\ result' = sig
             /\ UNCHANGED <<db, balances, total_minted, total_burned, tx_ids>>
        ELSE IF applied.err # "Ok"
        THEN /\ result' = applied.err
             /\ SetMem(applied.m)
             /\ UNCHANGED <<db, tx_ids>>
        ELSE IF InsertFails(db, tx, ioError)
        THEN /\ result' = "Database"
             /\ SetMem(applied.m)
             /\ UNCHANGED <<db, tx_ids>>
        ELSE /\ result' = "Ok"
             /\ SetMem(applied.m)
             /\ db' = Append(db, RowOf(tx))
             /\ tx_ids' = tx_ids \cup {tx.tx_id}

\* append recording the tx_id in the seen-set before the INSERT
append_RecordBeforePersist(tx, ioError) ==
    LET sig     == check_signature(tx)
        applied == apply_tx(Mem, tx)
    IN  IF sig # "Ok"
        THEN /\ result' = sig
             /\ UNCHANGED <<db, balances, total_minted, total_burned, tx_ids>>
        ELSE IF tx.tx_id \in tx_ids
        THEN /\ result' = "DuplicateTransaction"
             /\ UNCHANGED <<db, balances, total_minted, total_burned, tx_ids>>
        ELSE IF applied.err # "Ok"
        THEN /\ result' = applied.err
             /\ SetMem(applied.m)
             /\ UNCHANGED <<db, tx_ids>>
        ELSE IF InsertFails(db, tx, ioError)
        THEN /\ result' = "Database"
             /\ SetMem(applied.m)
             /\ tx_ids' = tx_ids \cup {tx.tx_id}
             /\ UNCHANGED db
        ELSE /\ result' = "Ok"
             /\ SetMem(applied.m)
             /\ db' = Append(db, RowOf(tx))
             /\ tx_ids' = tx_ids \cup {tx.tx_id}

\* the whole of append(tx); ioError says whether the INSERT meets an I/O error
append(tx, ioError) ==
    LET sig     == check_signature(tx)
        applied == apply_tx(Mem, tx)
    IN  IF sig # "Ok"
        THEN /\ result' = sig
             /\ UNCHANGED <<db, balances, total_minted, total_burned, tx_ids>>
        ELSE IF tx.tx_id \in tx_ids
        THEN /\ result' = "DuplicateTransaction"
             /\ UNCHANGED <<db, balances, total_minted, total_burned, tx_ids>>
        ELSE IF applied.err # "Ok"
        THEN /\ result' = applied.err
             /\ SetMem(applied.m)
             /\ UNCHANGED <<db, tx_ids>>
        ELSE IF InsertFails(db, tx, ioError)
        THEN /\ result' = "Database"
             /\ SetMem(applied.m)
             /\ UNCHANGED <<db, tx_ids>>
        ELSE /\ result' = "Ok"
             /\ SetMem(applied.m)
             /\ db' = Append(db, RowOf(tx))
             /\ tx_ids' = tx_ids \cup {tx.tx_id}

----------------------------------------------------------------------------
(* Actions                                                                 *)

\* ledger.append(tx) with a working database
AppendTx ==
    \E tx \in Txs :
        /\ opened
        /\ append(tx, FALSE)
        /\ lastTx' = tx
        /\ UNCHANGED <<opened, calls, input, output, apply_count>>

\* ledger.append(tx) while the database rejects writes (disk full, I/O error)
AppendTxDbError ==
    \E tx \in Txs :
        /\ opened
        /\ append(tx, TRUE)
        /\ result' = "Database"
        /\ lastTx' = tx
        /\ UNCHANGED <<opened, calls, input, output, apply_count>>

\* drop the Ledger value and Ledger::open the same database again
Reopen ==
    LET r == replay(db)
    IN  /\ lastTx' = NoTx
        /\ UNCHANGED <<db, calls, input, output, apply_count>>
        /\ IF r.err = "Ok"
           THEN /\ SetMem(r.m)
                /\ tx_ids' = RowIds(db)
                /\ opened' = TRUE
                /\ result' = "Opened"
           ELSE /\ SetMem(EmptyMem)
                /\ tx_ids' = {}
                /\ opened' = FALSE
                /\ result' = r.err

\* the threads that hold the one Ledger value
Callers == {"c1", "c2"}

\* a caller outside append
IdleFrame == [pc |-> "idle", tx |-> NoTx]

\* nobody is inside append and no call has returned
NoCalls == [frame |-> [c \in Callers |-> IdleFrame], returned |-> <<>>]

\* no pure function is under study
NoInput == <<>>
NoOutput == <<>>

\* no call has changed balances or supply
NoneApplied == [id \in TxIds |-> 0]

\* Ledger::in_memory: a Ledger over an empty table
Fresh ==
    /\ db = <<>>
    /\ balances = ZeroBalances
    /\ total_minted = 0
    /\ total_burned = 0
    /\ tx_ids = {}
    /\ opened = TRUE
    /\ lastTx = NoTx
    /\ result = "Opened"

\* Ledger::open / in_memory on an empty database
Init ==
    /\ Fresh
    /\ calls = NoCalls
    /\ input = NoInput
    /\ output = NoOutput
    /\ apply_count = NoneApplied

Next == AppendTx \/ AppendTxDbError \/ Reopen

Spec == Init /\ [][Next]_vars

----------------------------------------------------------------------------
(* Vocabulary of the properties                                            *)

RECURSIVE SumOver(_, _)
SumOver(f, S) ==
    IF S = {} THEN 0
    ELSE LET a == CHOOSE x \in S : TRUE
         IN  f[a] + SumOver(f, S \ {a})

\* the step is a call of append (open leaves NoTx in lastTx)
AppendCalled == lastTx' # NoTx

\* the call of the step left balances, supply and seen-set as they were
MemoryUnchanged ==
    /\ balances' = balances
    /\ total_minted' = total_minted
    /\ total_burned' = total_burned
    /\ tx_ids' = tx_ids

\* tx debits tx.from: a Burn, or a transfer-like type not from the system
Debits(tx) ==
    \/ tx.tx_type = "Burn"
    \/ tx.tx_type \in TransferLike /\ tx.from # system

\* tx mints: a Mint, or a transfer-like type from the system
Mints(tx) ==
    \/ tx.tx_type = "Mint"
    \/ tx.tx_type \in TransferLike /\ tx.from = system

\* tx passes the first two steps of append in the current state
PassesChecks(tx) == check_signature(tx) = "Ok" /\ tx.tx_id \notin tx_ids

----------------------------------------------------------------------------
(* C1: in every state, whatever appends succeeded or failed before,        *)
(* total_minted - total_burned equals the sum of all balances.             *)
C1_SupplyEqualsBalances ==
    total_minted - total_burned = SumOver(balances, Addresses)

\* a burn succeeded after money was minted and part of it moved to AddrB
C1_Witness ==
    /\ result = "Ok"
    /\ lastTx.tx_type = "Burn"
    /\ total_burned > 0
    /\ balances[AddrB] > 0

(* C2: an append that returns the Database error leaves balances, supply   *)
(* and seen-set equal to their values before the call.                     *)
C2_RollbackOnDatabaseError ==
    [][(AppendCalled /\ result' = "Database") => MemoryUnchanged]_vars

(* C3: while a Ledger value exists, its balances, supply and seen-set are  *)
(* those obtained by replaying the persisted rows in insertion order from  *)
(* the empty state.                                                        *)
C3_MemoryIsReplayOfRows ==
    opened =>
        /\ replay(db).err = "Ok"
        /\ replay(db).m = Mem
        /\ tx_ids = RowIds(db)

\* tx debits more than its sender holds
Overdraft(tx) == Debits(tx) /\ tx.amount > balances[tx.from]

(* C4, as claimed: no balance is ever negative, and every append of a      *)
(* Burn, or of a transfer-like type with from # system, whose amount       *)
(* exceeds the balance of `from` fails with InsufficientBalance.           *)
C4_OverdraftIsInsufficientBalance ==
    /\ [](\A a \in Addresses : balances[a] >= 0)
    /\ [][(AppendCalled /\ Overdraft(lastTx'))
            => result' = "InsufficientBalance"]_vars

(* C4, amended: no balance is ever negative; an append that debits more    *)
(* than the balance of `from` never succeeds and changes nothing, and      *)
(* fails with InsufficientBalance when it passes the signature/address     *)
(* verification and the duplicate check (which come first).                *)
C4_OverdraftRejected ==
    /\ [](\A a \in Addresses : balances[a] >= 0)
    /\ [][(AppendCalled /\ Overdraft(lastTx'))
            => /\ result' \notin {"Ok", "Database"}
               /\ MemoryUnchanged /\ db' = db
               /\ PassesChecks(lastTx') => result' = "InsufficientBalance"]_vars

\* a second spend: AddrB already received money from AddrA, and a further
\* transfer under a fresh id exceeds what AddrA has left
C4_Witness ==
    /\ result = "InsufficientBalance"
    /\ lastTx.tx_type = "Transfer"
    /\ lastTx.tx_id \notin tx_ids
    /\ balances[AddrB] > 0
    /\ Len(db) >= 2
    /\ lastTx.amount > balances[lastTx.from]

\* hex(SHA-256(pubkey bytes)) = from, and the signature is a valid Ed25519
\* signature by that pubkey over signable_bytes
Authentic(tx) ==
    /\ hex_decode(tx.pubkey) # HexErr
    /\ sha256_hex(hex_decode(tx.pubkey)) = tx.from
    /\ tx.signature.hex
    /\ tx.signature.signer \in Keys
    /\ HexOf(tx.signature.signer) = tx.pubkey
    /\ tx.signature.msg = signable_bytes(tx)

\* tx is signed, over its own bytes, by a key that is not the key of tx.from
SignedByAnother(tx) ==
    /\ tx.from # system
    /\ tx.signature.hex
    /\ tx.signature.signer \in Keys
    /\ tx.signature.msg = signable_bytes(tx)
    /\ AddrOf(tx.signature.signer) # tx.from

(* C5: every transaction with from # system that append accepts, and every *)
(* such row of the table, has a pubkey hashing to `from` and a valid       *)
(* signature by it over signable_bytes; a transaction signed by a key      *)
(* that is not the key of its `from` address is rejected with              *)
(* InvalidSignature and changes no balance.                                *)
C5_OnlyAuthenticAccepted ==
    /\ []((result = "Ok" /\ lastTx.from # system) => Authentic(lastTx))
    /\ [](\A i \in 1..Len(db) :
            LET tx == TxOfRow(db[i]) IN tx.from # system => Authentic(tx))
    /\ [][(AppendCalled /\ SignedByAnother(lastTx'))
            => (result' = "InvalidSignature" /\ balances' = balances)]_vars

\* Bob signs a transfer with from = AddrA while AddrA holds money: rejected
C5_Witness ==
    /\ result = "InvalidSignature"
    /\ lastTx.from = AddrA
    /\ lastTx.pubkey = PubHexB
    /\ lastTx.signature = Sign("kb", signable_bytes(lastTx))
    /\ balances[AddrA] >= lastTx.amount

\* no tx_id is recorded twice: the rows have distinct ids and, while a Ledger
\* value exists, the seen-set holds exactly these ids
NoIdTwice ==
    /\ \A i, j \in 1..Len(db) : db[i].tx_id = db[j].tx_id => i = j
    /\ opened => (tx_ids = RowIds(db) /\ Cardinality(tx_ids) = Len(db))

(* C6, as claimed: every append whose tx_id is already recorded fails      *)
(* with DuplicateTransaction whatever its other fields, and no tx_id is    *)
(* recorded twice.                                                         *)
C6_DuplicateIsDuplicateTransaction ==
    /\ []NoIdTwice
    /\ [][(AppendCalled /\ lastTx'.tx_id \in tx_ids)
            => result' = "DuplicateTransaction"]_vars

(* C6, amended: no tx_id is recorded twice; an append whose tx_id is       *)
(* already recorded never succeeds and changes nothing, and fails with     *)
(* DuplicateTransaction, whatever its type, amount and addresses, when it  *)
(* passes the signature/address verification (which comes first).          *)
C6_DuplicateRejected ==
    /\ []NoIdTwice
    /\ [][(AppendCalled /\ lastTx'.tx_id \in tx_ids)
            => /\ result' \notin {"Ok", "Database"}
               /\ MemoryUnchanged /\ db' = db
               /\ check_signature(lastTx') = "Ok"
                    => result' = "DuplicateTransaction"]_vars

\* a recorded id comes again with another type, amount and addresses
C6_Witness ==
    /\ result = "DuplicateTransaction"
    /\ \E i \in 1..Len(db) :
        /\ db[i].tx_id = lastTx.tx_id
        /\ db[i].tx_type # TxTypeStr(lastTx.tx_type)
        /\ db[i].amount # lastTx.amount
        /\ db[i].from_addr # lastTx.from
        /\ db[i].to_addr # lastTx.to

\* tx would take total_minted beyond the cap
OverCap(tx) == Mints(tx) /\ total_minted + tx.amount > SupplyCap

(* C7, as claimed: total_minted never exceeds the supply cap, and every    *)
(* append that mints and would take total_minted beyond the cap fails      *)
(* with SupplyCapExceeded without crediting the recipient.                 *)
C7_OverCapIsSupplyCapExceeded ==
    /\ [](total_minted <= SupplyCap)
    /\ [][(AppendCalled /\ OverCap(lastTx'))
            => /\ result' = "SupplyCapExceeded"
               /\ balances'[lastTx'.to] = balances[lastTx'.to]]_vars

(* C7, amended: total_minted never exceeds the supply cap; an append that  *)
(* mints and would take total_minted beyond the cap never succeeds and     *)
(* credits nobody, and fails with SupplyCapExceeded when it passes the     *)
(* signature/address verification and the duplicate check (which come      *)
(* first).                                                                 *)
C7_OverCapRejected ==
    /\ [](total_minted <= SupplyCap)
    /\ [][(AppendCalled /\ OverCap(lastTx'))
            => /\ result' \notin {"Ok", "Database"}
               /\ MemoryUnchanged /\ db' = db
               /\ PassesChecks(lastTx') => result' = "SupplyCapExceeded"]_vars

\* a reward paid by the system is refused at the cap
C7_Witness ==
    /\ result = "SupplyCapExceeded"
    /\ lastTx.tx_type \in TransferLike
    /\ lastTx.from = system
    /\ total_minted + lastTx.amount > SupplyCap
    /\ total_minted > 0

\* the result the five steps of append give, taken in their order: the
\* error of the first step that fails
FirstFailure(tx, ioFails) ==
    IF check_signature(tx) # "Ok" THEN check_signature(tx)
    ELSE IF tx.tx_id \in tx_ids THEN "DuplicateTransaction"
    ELSE IF apply_tx(Mem, tx).err # "Ok" THEN apply_tx(Mem, tx).err
    ELSE IF ioFails THEN "Database"
    ELSE "Ok"

(* C8: append returns the error of the first failing step in the order     *)
(* signature/address verification, duplicate check, effect application,    *)
(* persistence; a badly signed duplicate yields InvalidSignature, a        *)
(* duplicate overdraft DuplicateTransaction; and a tx_id enters the        *)
(* seen-set only in a call that persisted its row.                         *)
C8_StepsInOrder ==
    /\ [][AppendCalled =>
            /\ result' \in {FirstFailure(lastTx', TRUE), FirstFailure(lastTx', FALSE)}
            /\ (result' = "Database") = (FirstFailure(lastTx', TRUE) = "Database"
                                           /\ db' = db)
            /\ (~lastTx'.signature.hex \/ hex_decode(lastTx'.pubkey) = HexErr)
                    => result' = "InvalidTransaction"
            /\ (SignedByAnother(lastTx') /\ lastTx'.tx_id \in tx_ids)
                    => result' = "InvalidSignature"
            /\ (Authentic(lastTx') /\ lastTx'.tx_id \in tx_ids /\ Overdraft(lastTx'))
                    => result' = "DuplicateTransaction"
            /\ tx_ids' # tx_ids =>
                    /\ result' = "Ok"
                    /\ db' = Append(db, RowOf(lastTx'))
                    /\ tx_ids' = tx_ids \cup {lastTx'.tx_id}]_vars
    /\ [](tx_ids \subseteq RowIds(db))

\* a transaction that is badly signed, a duplicate and an overdraft at once
C8_Witness ==
    /\ result = "InvalidSignature"
    /\ lastTx.tx_id \in tx_ids
    /\ SignedByAnother(lastTx)
    /\ lastTx.amount > balances[lastTx.from]

(* C9: a successful Mint of a to t adds a to balance(t) and to             *)
(* total_minted; a successful Burn of a from f takes a from balance(f)     *)
(* and adds a to total_burned; every other balance, and the other supply   *)
(* counter, stay as they were.                                             *)
C9_MintAndBurnEffects ==
    [][(AppendCalled /\ result' = "Ok") =>
        LET tx == lastTx' IN
        /\ tx.tx_type = "Mint" =>
            /\ balances'[tx.to] = balances[tx.to] + tx.amount
            /\ total_minted' = total_minted + tx.amount
            /\ total_burned' = total_burned
            /\ \A a \in Addresses \ {tx.to} : balances'[a] = balances[a]
        /\ tx.tx_type = "Burn" =>
            /\ balances'[tx.from] = balances[tx.from] - tx.amount
            /\ total_burned' = total_burned + tx.amount
            /\ total_minted' = total_minted
            /\ \A a \in Addresses \ {tx.from} : balances'[a] = balances[a]]_vars

\* a Burn succeeded on money that a Mint had created
C9_Witness ==
    /\ result = "Ok"
    /\ lastTx.tx_type = "Burn"
    /\ total_burned = lastTx.amount
    /\ total_minted >= lastTx.amount
    /\ \E i \in 1..Len(db) : db[i].tx_type = "mint"

\* 1 if x = y, else 0
Is(x, y) == IF x = y THEN 1 ELSE 0

(* C10: a successful transfer-like transaction of amount a with            *)
(* from # system takes a from balance(from), adds a to balance(to) and     *)
(* leaves the supply and every other balance alone; with from = system it  *)
(* adds a to total_minted and to balance(to) and debits nobody.            *)
C10_TransferEffects ==
    [][(AppendCalled /\ result' = "Ok" /\ lastTx'.tx_type \in TransferLike) =>
        LET tx == lastTx' IN
        /\ total_burned' = total_burned
        /\ tx.from # system =>
            /\ total_minted' = total_minted
            /\ \A a \in Addresses :
                balances'[a] = balances[a] - tx.amount * Is(a, tx.from)
                                           + tx.amount * Is(a, tx.to)
        /\ tx.from = system =>
            /\ total_minted' = total_minted + tx.amount
            /\ \A a \in Addresses :
                balances'[a] = balances[a] + tx.amount * Is(a, tx.to)]_vars

\* AddrA paid AddrB, who already held money from a reward or an earlier payment
C10_Witness ==
    /\ result = "Ok"
    /\ lastTx.tx_type \in TransferLike
    /\ lastTx.from = AddrA
    /\ lastTx.to = AddrB
    /\ balances[AddrB] > lastTx.amount
    /\ \E i \in 1..Len(db) :
        /\ db[i].from_addr = system
        /\ ParseTxType(db[i].tx_type) \in TransferLike

----------------------------------------------------------------------------
(* C11: a transaction with from = "system" needs no signature: append      *)
(* takes it with empty signature and pubkey, never answers with a          *)
(* signature error, and refuses it only as a duplicate tx_id or for its    *)
(* effect (supply cap, balance); otherwise it goes on to persistence.      *)
C11_SystemNeedsNoSignature ==
    [][(AppendCalled /\ lastTx'.from = system
            /\ lastTx'.signature = SigEmpty /\ lastTx'.pubkey = "") =>
        LET tx == lastTx' IN
        /\ result' \notin {"InvalidSignature", "InvalidTransaction"}
        /\ tx.tx_id \in tx_ids => result' = "DuplicateTransaction"
        /\ (tx.tx_id \notin tx_ids /\ OverCap(tx))
                => result' = "SupplyCapExceeded"
        /\ (tx.tx_id \notin tx_ids /\ ~OverCap(tx) /\ ~Overdraft(tx))
                => /\ result' \in {"Ok", "Database"}
                   /\ result' = "Ok" => db' = Append(db, RowOf(tx))]_vars

\* a reward from the system, with no signature and no pubkey, was accepted
\* after an earlier transaction
C11_Witness ==
    /\ result = "Ok"
    /\ lastTx.from = system
    /\ lastTx.tx_type \in TransferLike
    /\ lastTx.signature = SigEmpty
    /\ lastTx.pubkey = ""
    /\ Len(db) >= 2
    /\ db[Len(db)] = RowOf(lastTx)

----------------------------------------------------------------------------
(* C12: merkle_tree() has one leaf per successfully appended transaction,  *)
(* the i-th leaf being the hash of the i-th of them, and tx_count() is the *)
(* number of leaves: both start empty on a fresh ledger, a successful      *)
(* append adds the hash of its transaction as the last leaf and one to     *)
(* tx_count, a failed append changes neither, and reopening the ledger     *)
(* gives the same leaves (the leaves are a function of the table, so they  *)
(* are the same wherever the table is).                                    *)
C12_LeafPerAppendedTx ==
    /\ merkle_tree(db).leaves = <<>> /\ tx_count = 0
    /\ [](opened => tx_count = leaf_count(merkle_tree(db)))
    /\ [][LET before == merkle_tree(db).leaves
              after  == merkle_tree(db').leaves
          IN  IF AppendCalled /\ result' = "Ok"
              THEN /\ after = Append(before, hash(lastTx'))
                   /\ tx_count' = tx_count + 1
              ELSE /\ db' = db \/ after = before
                   /\ AppendCalled => tx_count' = tx_count]_vars

\* after two successful appends a third failed at the INSERT: two leaves,
\* the hashes of the two transactions, and tx_count still two
C12_Witness ==
    /\ opened
    /\ result = "Database"
    /\ tx_count = 2
    /\ leaf_count(merkle_tree(db)) = 2
    /\ lastTx.tx_id \notin tx_ids
    /\ merkle_tree(db).leaves[1] # merkle_tree(db).leaves[2]
    /\ root(merkle_tree(db)) = hash_pair(hash(TxOfRow(db[1])),
                                         hash(TxOfRow(db[2])))

----------------------------------------------------------------------------
\* s is a prefix of t
IsPrefix(s, t) == Len(s) <= Len(t) /\ SubSeq(t, 1, Len(s)) = s

(* C13: the persisted sequence is append-only: across every operation the  *)
(* transactions read back in insertion order afterwards have those read    *)
(* back before as a prefix, and no row is removed, moved or rewritten; a   *)
(* successful append adds exactly the appended transaction at the end, and *)
(* every other operation leaves the table as it was.                       *)
C13_AppendOnly ==
    [][IF AppendCalled /\ result' = "Ok"
       THEN /\ IsPrefix(db, db')
            /\ IsPrefix(load_all_txs(db), load_all_txs(db'))
            /\ load_all_txs(db') = Append(load_all_txs(db), lastTx')
       ELSE db' = db]_vars

\* a burn was appended after two other transactions and is read back last,
\* as it was given
C13_Witness ==
    /\ result = "Ok"
    /\ lastTx.tx_type = "Burn"
    /\ Len(db) >= 3
    /\ load_all_txs(db)[Len(db)] = lastTx
    /\ load_all_txs(db)[1].tx_type = "Mint"

----------------------------------------------------------------------------
(* C14: minting originates only from the system address: an append raises  *)
(* total_minted only when the transaction's from is "system"; one sent     *)
(* from and signed by an ordinary address never raises it.                 *)
C14_MintOnlyFromSystem ==
    [][(AppendCalled /\ total_minted' > total_minted)
            => lastTx'.from = system]_vars

----------------------------------------------------------------------------
(* Ledger::append called from several threads, one step of its body at a   *)
(* time: check (signature and duplicate), apply, persist, record.          *)

\* the number of append calls made in one run
MaxCalls == 3

\* the transactions the callers offer: two mints under one id, a transfer
\* and a burn under another, a forged transfer
ConcTxs ==
    {Honest("t1", Shape("Mint", system, AddrA, a)) : a \in 1..MaxAmount}
    \cup {Honest("t2", Shape("Transfer", AddrA, AddrB, 1)),
          Honest("t2", Shape("Burn", AddrA, system, 1))}
    \cup {tx \in BadCredentials("t1") : SignedByAnother(tx)}

\* append taking a shared reference: any caller may enter at any time
ExclusiveBorrow_Shared(c) == TRUE

\* `&mut self`: caller c can be inside append only while no other caller is
ExclusiveBorrow(c) ==
    \A d \in Callers \ {c} : calls.frame[d].pc = "idle"

\* caller c moves to the next step of its call
Goto(c, pc) ==
    /\ calls' = [calls EXCEPT !.frame[c].pc = pc]
    /\ UNCHANGED <<lastTx, result>>

\* the call of caller c returns r
Return(c, r) ==
    /\ calls' = [frame    |-> [calls.frame EXCEPT ![c] = IdleFrame],
                 returned |-> Append(calls.returned, calls.frame[c].tx)]
    /\ lastTx' = calls.frame[c].tx
    /\ result' = r

\* ledger.append(tx) is entered
Call(c) ==
    \E tx \in ConcTxs :
        /\ calls.frame[c].pc = "idle"
        /\ ExclusiveBorrow(c)
        /\ Len(calls.returned)
             + Cardinality({d \in Callers : calls.frame[d].pc # "idle"})
                < MaxCalls
        /\ calls' = [calls EXCEPT !.frame[c] = [pc |-> "check", tx |-> tx]]
        /\ UNCHANGED <<db, balances, total_minted, total_burned, tx_ids,
                       opened, lastTx, result, input, output, apply_count>>

\* signature verification and duplicate check
CheckStep(c) ==
    LET tx  == calls.frame[c].tx
        sig == check_signature(tx)
    IN  /\ calls.frame[c].pc = "check"
        /\ IF sig # "Ok" THEN Return(c, sig)
           ELSE IF tx.tx_id \in tx_ids THEN Return(c, "DuplicateTransaction")
           ELSE Goto(c, "apply")
        /\ UNCHANGED <<db, balances, total_minted, total_burned, tx_ids,
                       opened, input, output, apply_count>>

\* self.apply_tx(tx)?
ApplyStep(c) ==
    LET applied == apply_tx(Mem, calls.frame[c].tx)
    IN  /\ calls.frame[c].pc = "apply"
        /\ SetMem(applied.m)
        /\ IF applied.err # "Ok" THEN Return(c, applied.err)
           ELSE Goto(c, "persist")
        /\ UNCHANGED <<db, tx_ids, opened, input, output, apply_count>>

\* self.conn.execute(INSERT ...)?
PersistStep(c) ==
    LET tx == calls.frame[c].tx
    IN  /\ calls.frame[c].pc = "persist"
        /\ IF InsertFails(db, tx, FALSE)
           THEN /\ Return(c, "Database")
                /\ UNCHANGED db
           ELSE /\ db' = Append(db, RowOf(tx))
                /\ Goto(c, "record")
        /\ UNCHANGED <<balances, total_minted, total_burned, tx_ids, opened,
                       input, output, apply_count>>

\* self.tx_ids.insert(tx.tx_id); Ok(())
RecordStep(c) ==
    /\ calls.frame[c].pc = "record"
    /\ tx_ids' = tx_ids \cup {calls.frame[c].tx.tx_id}
    /\ Return(c, "Ok")
    /\ UNCHANGED <<db, balances, total_minted, total_burned, opened, input,
                   output, apply_count>>

NextConcurrent ==
    \E c \in Callers :
        \/ Call(c)
        \/ CheckStep(c)
        \/ ApplyStep(c)
        \/ PersistStep(c)
        \/ RecordStep(c)

SpecConcurrent == Init /\ [][NextConcurrent]_vars

\* a ledger value: table, memory and seen-set
LedgerValue == [db |-> db, m |-> Mem, tx_ids |-> tx_ids]

\* the ledger value append(tx) leaves when it runs alone on ledger value s
\* with a working database
AppendAlone(s, tx) ==
    LET applied == apply_tx(s.m, tx)
    IN  IF check_signature(tx) # "Ok" \/ tx.tx_id \in s.tx_ids THEN s
        ELSE IF applied.err # "Ok" THEN [s EXCEPT !.m = applied.m]
        ELSE [db |-> Append(s.db, RowOf(tx)), m |-> applied.m,
              tx_ids |-> s.tx_ids \cup {tx.tx_id}]

\* the first n of txs appended one at a time to a fresh ledger
RECURSIVE OneAtATime(_, _)
OneAtATime(txs, n) ==
    IF n = 0 THEN [db |-> <<>>, m |-> EmptyMem, tx_ids |-> {}]
    ELSE AppendAlone(OneAtATime(txs, n - 1), txs[n])

\* the callers that are inside append
Inside == {c \in Callers : calls.frame[c].pc # "idle"}

(* C15: the append calls on one ledger serialize: at no time are two       *)
(* callers inside append, and whenever nobody is inside it the table,      *)
(* balances, supply and seen-set are those of the returned calls executed  *)
(* one at a time, in the order of their return, on a fresh ledger.         *)
C15_AppendsSerialize ==
    /\ Cardinality(Inside) <= 1
    /\ Inside = {} =>
            LedgerValue = OneAtATime(calls.returned, Len(calls.returned))

\* both callers have had a call return, the second a duplicate of the first
C15_Witness ==
    /\ Inside = {}
    /\ Len(calls.returned) = MaxCalls
    /\ result = "DuplicateTransaction"
    /\ Len(db) >= 1
    /\ calls.returned[1].tx_id = lastTx.tx_id
    /\ calls.returned[1] # lastTx

----------------------------------------------------------------------------
(* Transaction::signable_bytes and Transaction::hash as functions of the   *)
(* transaction                                                             *)

\* transactions like tests::test_tx, each field taking one of two values
SignTxs ==
    [tx_id : {"tx-001", "tx-001a"}, tx_type : {"Transfer", "Burn"},
     from : {"aaa", "aa"}, to : {"bbb"}, amount : {1, 12},
     metadata : {EmptyMeta}, timestamp : {3, 23},
     signature : {SigEmpty, SigNotHex}, pubkey : {"", PubHexA}]

InitSignable ==
    /\ Fresh
    /\ calls = NoCalls
    /\ input \in [a : SignTxs, b : SignTxs]
    /\ output = NoOutput
    /\ apply_count = NoneApplied

\* a.signable_bytes(), a.hash() (twice, as test_hash_deterministic and
\* test_signable_bytes_stable do) and b.signable_bytes(), b.hash()
SignableOfBoth ==
    /\ output = NoOutput
    /\ output' = [a_bytes |-> signable_bytes(input.a),
                  a_again |-> signable_bytes(input.a),
                  b_bytes |-> signable_bytes(input.b),
                  a_hash  |-> hash(input.a),
                  a_hash_again |-> hash(input.a),
                  b_hash  |-> hash(input.b)]
    /\ UNCHANGED <<db, balances, total_minted, total_burned, tx_ids,
                   opened, lastTx, result, calls, input, apply_count>>

NextSignable == SignableOfBoth

SpecSignable == InitSignable /\ [][NextSignable]_vars

\* the fields signable_bytes is made of
SignedFields(tx) ==
    <<tx.tx_id, tx.from, tx.to, tx.amount, tx.timestamp, tx.metadata,
      tx.pubkey>>

(* C16: hash() and signable_bytes() give the same result each time they    *)
(* are taken of a transaction, and two transactions that differ in one of  *)
(* tx_id, from, to, amount, timestamp, metadata, pubkey have different     *)
(* signable_bytes and different hashes.                                    *)
C16_SignedFieldsDistinguish ==
    output # NoOutput =>
        /\ output.a_bytes = output.a_again
        /\ output.a_hash = output.a_hash_again
        /\ SignedFields(input.a) # SignedFields(input.b) =>
                /\ output.a_bytes # output.b_bytes
                /\ output.a_hash # output.b_hash

----------------------------------------------------------------------------
(* The challenge round driven by benches/challenge_bench.rs:               *)
(* Challenge::generate, ChallengeProof::create and                         *)
(* validate_challenge_response, after sections 4.4 to 4.6 of the           *)
(* specification.                                                          *)

\* FRAGMENT_SIZE, scaled down
FragmentSize == 4

\* config.challenge_sample_count, challenge_window_bytes and
\* challenge_timeout_ms of GitGoldConfig, scaled down
SampleCount == 2
WindowBytes == 2
TimeoutMs == 1

\* byte values of a fragment: the 0xAB of the benches, and another
FragmentBytes == {171, 0}

Fragments == [1..FragmentSize -> FragmentBytes]

\* the challenge id drawn by generate, and an id of another challenge
ChallengeId == "ch1"
OtherChallengeId == "ch2"

\* the ascending sequence of the members of a set of offsets
RECURSIVE Ascending(_)
Ascending(S) ==
    IF S = {} THEN <<>>
    ELSE LET least == CHOOSE x \in S : \A y \in S : x <= y
         IN  <<least>> \o Ascending(S \ {least})

\* Challenge::generate: SampleCount unique offsets in [0, size), sorted; the
\* hash chain that picks them can pick any such set
Challenges ==
    {[challenge_id |-> ChallengeId, size |-> FragmentSize,
      sample_offsets |-> Ascending(S)] :
        S \in {T \in SUBSET (0..(FragmentSize - 1)) :
                    Cardinality(T) = SampleCount}}

\* the window of WindowBytes bytes starting at offset o, wrapping around at
\* the end of the fragment
window(fragment, o) ==
    [j \in 1..WindowBytes |-> fragment[((o + j - 1) % Len(fragment)) + 1]]

\* the windows at the sample offsets of the challenge
extract_windows(challenge, fragment) ==
    [i \in 1..Len(challenge.sample_offsets) |->
        window(fragment, challenge.sample_offsets[i])]

\* bytes written out as text, to be hashed
RECURSIVE BytesText(_, _)
BytesText(bytes, n) ==
    IF n = 0 THEN ""
    ELSE BytesText(bytes, n - 1) \o ToString(bytes[n]) \o "."

\* sha256 of a window
window_hash(w) == "sha256(" \o BytesText(w, Len(w)) \o ")"

\* the Merkle root over the hashed windows
windows_root(windows) ==
    root(build([i \in 1..Len(windows) |-> window_hash(windows[i])]))

\* challenge_id || merkle_root || response_time_ms_le (fields of fixed width)
proof_preimage(challenge_id, merkle_root, response_time_ms) ==
    challenge_id \o "|" \o merkle_root \o "|" \o ToString(response_time_ms)

\* ChallengeProof::create(challenge, fragment, response_time_ms, sign),
\* sign being the signature of key k
create(challenge, fragment, response_time_ms, k) ==
    LET windows == extract_windows(challenge, fragment)
        rt      == windows_root(windows)
    IN  [challenge_id |-> challenge.challenge_id,
         windows |-> windows,
         merkle_root |-> rt,
         response_time_ms |-> response_time_ms,
         signature |-> Sign(k, proof_preimage(challenge.challenge_id, rt,
                                              response_time_ms))]

\* the validator looking at the response time before anything else
validate_challenge_response_TimeoutFirst(challenge, pr, expected, pk) ==
    IF pr.response_time_ms > TimeoutMs THEN "Timeout"
    ELSE IF challenge.challenge_id # pr.challenge_id THEN "Mismatch"
    ELSE IF extract_windows(challenge, expected) # pr.windows
         THEN "DataMismatch"
    ELSE IF windows_root(extract_windows(challenge, expected))
                # pr.merkle_root
         THEN "RootMismatch"
    ELSE IF ~verify(pk, proof_preimage(pr.challenge_id, pr.merkle_root,
                                       pr.response_time_ms), pr.signature)
         THEN "BadSignature"
    ELSE "Ok"

\* the validator comparing only the Merkle root, not the window bytes
validate_challenge_response_RootOnly(challenge, pr, expected, pk) ==
    IF challenge.challenge_id # pr.challenge_id THEN "Mismatch"
    ELSE IF windows_root(extract_windows(challenge, expected))
                # pr.merkle_root
         THEN "RootMismatch"
    ELSE IF pr.response_time_ms > TimeoutMs THEN "Timeout"
    ELSE IF ~verify(pk, proof_preimage(pr.challenge_id, pr.merkle_root,
                                       pr.response_time_ms), pr.signature)
         THEN "BadSignature"
    ELSE "Ok"

\* validate_challenge_response(challenge, proof, expected, pk, config): the
\* error of the first failing check, or "Ok"
validate_challenge_response(challenge, pr, expected, pk) ==
    IF challenge.challenge_id # pr.challenge_id THEN "Mismatch"
    ELSE IF extract_windows(challenge, expected) # pr.windows
         THEN "DataMismatch"
    ELSE IF windows_root(extract_windows(challenge, expected))
                # pr.merkle_root
         THEN "RootMismatch"
    ELSE IF pr.response_time_ms > TimeoutMs THEN "Timeout"
    ELSE IF ~verify(pk, proof_preimage(pr.challenge_id, pr.merkle_root,
                                       pr.response_time_ms), pr.signature)
         THEN "BadSignature"
    ELSE "Ok"

\* the public key bytes handed to the validator: those of key "ka"
VerifierKey == hex_decode(PubHexA)

\* a round: the challenge, the bytes the verifier expects, the bytes the
\* holder has, the time the holder took, the key it signs with, and whether
\* it answers under another challenge id or with another root
Rounds ==
    [challenge : Challenges, expected : Fragments, held : Fragments,
     response_time_ms : 0..(TimeoutMs + 1), signer : Keys,
     wrong_id : BOOLEAN, wrong_root : BOOLEAN]

\* the proof the holder submits: ChallengeProof::create over the bytes it
\* has, then the id and the root replaced if it so chooses, signed by its key
Respond(r) ==
    LET made == create(r.challenge, r.held, r.response_time_ms, r.signer)
        id   == IF r.wrong_id THEN OtherChallengeId ELSE made.challenge_id
        rt   == IF r.wrong_root THEN ZeroRoot ELSE made.merkle_root
    IN  [made EXCEPT !.challenge_id = id, !.merkle_root = rt,
                     !.signature = Sign(r.signer,
                        proof_preimage(id, rt, r.response_time_ms))]

InitChallenge ==
    /\ Fresh
    /\ calls = NoCalls
    /\ input \in Rounds
    /\ output = NoOutput
    /\ apply_count = NoneApplied

\* validate_challenge_response(&challenge, &proof, &fragment_data, &pk, ..)
ValidateResponse ==
    /\ output = NoOutput
    /\ output' = [proof  |-> Respond(input),
                  result |-> validate_challenge_response(input.challenge,
                                Respond(input), input.expected, VerifierKey)]
    /\ UNCHANGED <<db, balances, total_minted, total_burned, tx_ids,
                   opened, lastTx, result, calls, input, apply_count>>

NextChallenge == ValidateResponse

SpecChallenge == InitChallenge /\ [][NextChallenge]_vars

\* the positions (from 1) of the fragment that the windows of the challenge
\* cover
SampledPositions(challenge) ==
    {((challenge.sample_offsets[i] + j) % challenge.size) + 1 :
        i \in 1..Len(challenge.sample_offsets), j \in 0..(WindowBytes - 1)}

\* what each of the five checks has to find in round r
IdOff(r)      == r.wrong_id
DataOff(r)    == \E p \in SampledPositions(r.challenge) :
                    r.held[p] # r.expected[p]
RootOff(r)    == r.wrong_root
Late(r)       == r.response_time_ms > TimeoutMs
SigOff(r)     == hex_decode(HexOf(r.signer)) # VerifierKey

(* C17: validation runs its five checks in the order challenge id, window  *)
(* bytes, Merkle root, response time, signature, and returns the error of  *)
(* the first that fails (Mismatch, DataMismatch, RootMismatch, Timeout,    *)
(* BadSignature) even when later ones fail too; it succeeds only when all  *)
(* five pass.                                                              *)
C17_FirstFailingCheck ==
    output # NoOutput =>
        output.result =
            IF IdOff(input) THEN "Mismatch"
            ELSE IF DataOff(input) THEN "DataMismatch"
            ELSE IF RootOff(input) THEN "RootMismatch"
            ELSE IF Late(input) THEN "Timeout"
            ELSE IF SigOff(input) THEN "BadSignature"
            ELSE "Ok"

\* data, root, time and signature are all off, the id is right: DataMismatch
C17_Witness ==
    /\ output # NoOutput
    /\ output.result = "DataMismatch"
    /\ ~IdOff(input)
    /\ DataOff(input) /\ RootOff(input) /\ Late(input) /\ SigOff(input)

\* the holder answers the challenge as ChallengeProof::create makes the
\* proof, in time, signing with the key the validator is given
HonestResponse(r) ==
    /\ ~r.wrong_id /\ ~r.wrong_root
    /\ r.response_time_ms <= TimeoutMs
    /\ ~SigOff(r)

\* the bytes the proof was made over differ from the expected ones at a
\* sample offset of the challenge
FlippedAtSampleOffset(r) ==
    \E i \in 1..Len(r.challenge.sample_offsets) :
        r.held[r.challenge.sample_offsets[i] + 1]
            # r.expected[r.challenge.sample_offsets[i] + 1]

(* C18: for every challenge, a proof honestly created over the expected    *)
(* fragment bytes, within the timeout and signed by the key given to the   *)
(* validator, passes validation; with a fragment byte changed at one of    *)
(* the sample offsets validation fails with DataMismatch.                  *)
C18_HonestPassesFlipFails ==
    (output # NoOutput /\ HonestResponse(input)) =>
        /\ input.held = input.expected =>
                /\ output.result = "Ok"
                /\ output.proof = create(input.challenge, input.expected,
                                         input.response_time_ms, "ka")
        /\ FlippedAtSampleOffset(input) => output.result = "DataMismatch"

\* one byte differs, the one at the last sample offset: DataMismatch
C18_Witness ==
    /\ output # NoOutput
    /\ HonestResponse(input)
    /\ output.result = "DataMismatch"
    /\ LET last == input.challenge.sample_offsets[SampleCount] + 1
       IN  /\ input.held[last] # input.expected[last]
           /\ \A p \in 1..FragmentSize \ {last} :
                    input.held[p] = input.expected[p]

----------------------------------------------------------------------------
(* Ledger::open on a table that was not written by this Ledger alone: the  *)
(* file was damaged, edited, or written by another version                 *)

\* the longest table found on disk
MaxStoredRows == 2

\* rows as append writes them, and the same rows with a tx_type text that
\* names no transaction type or a metadata text that is not JSON
StoredRows ==
    {[RowOf(Honest(id, sh)) EXCEPT
            !.tx_type = IF typed THEN @ ELSE "bogus", !.metadata = md] :
        id \in TxIds, sh \in CoreShapes, typed \in BOOLEAN,
        md \in {EmptyMeta, "{"}}

\* tables of at most MaxStoredRows rows with distinct tx_id (PRIMARY KEY)
StoredTables ==
    {t \in UNION {[1..n -> StoredRows] : n \in 1..MaxStoredRows} :
        \A i, j \in 1..Len(t) : t[i].tx_id = t[j].tx_id => i = j}

\* no Ledger value yet; the table is on disk
InitStore ==
    /\ db \in StoredTables
    /\ balances = ZeroBalances
    /\ total_minted = 0
    /\ total_burned = 0
    /\ tx_ids = {}
    /\ opened = FALSE
    /\ lastTx = NoTx
    /\ result = "Closed"
    /\ calls = NoCalls
    /\ input = NoInput
    /\ output = NoOutput
    /\ apply_count = NoneApplied

\* Ledger::open(path)
NextStore == Reopen

SpecStore == InitStore /\ [][NextStore]_vars

\* the tx_type text of the row names a transaction type
RecognisedType(row) == \E t \in TxTypes : TxTypeStr(t) = row.tx_type

(* C20: on open, a persisted row whose tx_type text is no transaction type *)
(* or whose metadata is not valid JSON makes open fail: no Ledger is ever  *)
(* open over such a row, read as another type or with empty metadata.      *)
C20_CorruptRowFailsOpen ==
    opened =>
        \A i \in 1..Len(db) :
            /\ RecognisedType(db[i]) /\ ValidJson(db[i].metadata)
            /\ TxTypeStr(load_all_txs(db)[i].tx_type) = db[i].tx_type
            /\ load_all_txs(db)[i].metadata = db[i].metadata

----------------------------------------------------------------------------
\* the step is a call of Ledger::open (open leaves NoTx in lastTx)
OpenCalled == lastTx' = NoTx

(* C21: when applying a persisted transaction fails during replay, open    *)
(* returns that error and no Ledger value is produced; and reopening a     *)
(* table written only by successfully persisted appends never fails        *)
(* during replay.                                                          *)
C21_ReplayFailureIsFatal ==
    [][OpenCalled =>
        /\ replay(db).err # "Ok" => (~opened' /\ result' = replay(db).err)
        /\ replay(db).err = "Ok" /\ opened' /\ result' = "Opened"]_vars

----------------------------------------------------------------------------
\* the errors append returns before anything is persisted
EarlyErrors ==
    {"InvalidSignature", "InvalidTransaction", "DuplicateTransaction",
     "InsufficientBalance", "SupplyCapExceeded"}

(* C22: an append that fails with InvalidSignature, InvalidTransaction,    *)
(* DuplicateTransaction, InsufficientBalance or SupplyCapExceeded leaves   *)
(* every balance, total_minted, total_burned, the seen-set and the         *)
(* persisted sequence as they were before the call.                        *)
C22_FailedAppendChangesNothing ==
    [][(AppendCalled /\ result' \in EarlyErrors)
            => (MemoryUnchanged /\ db' = db)]_vars

\* a mint beyond the cap was refused on a ledger that holds money and rows
C22_Witness ==
    /\ result = "SupplyCapExceeded"
    /\ lastTx.tx_type = "Mint"
    /\ lastTx.tx_id \notin tx_ids
    /\ balances[lastTx.to] > 0
    /\ total_minted = SumOver(balances, Addresses) + total_burned
    /\ Len(db) >= 1

----------------------------------------------------------------------------
(* Ledger::append called again and again on one Ledger value, with a       *)
(* count of the calls that left an effect                                  *)

\* the transactions submitted: the honest core shapes under every id
ResubmitTxs == {Honest(id, sh) : id \in TxIds, sh \in CoreShapes}

\* the call for tx is counted when it changed a balance or the supply
Counted(tx) ==
    apply_count' =
        IF <<balances', total_minted', total_burned'>>
                # <<balances, total_minted, total_burned>>
        THEN [apply_count EXCEPT ![tx.tx_id] = @ + 1]
        ELSE apply_count

\* ledger.append(tx) with a working database
Submit ==
    \E tx \in ResubmitTxs :
        /\ opened
        /\ append(tx, FALSE)
        /\ lastTx' = tx
        /\ Counted(tx)
        /\ UNCHANGED <<opened, calls, input, output>>

\* ledger.append(tx) while the database rejects writes
SubmitDbError ==
    \E tx \in ResubmitTxs :
        /\ opened
        /\ append(tx, TRUE)
        /\ result' = "Database"
        /\ lastTx' = tx
        /\ Counted(tx)
        /\ UNCHANGED <<opened, calls, input, output>>

NextResubmit == Submit \/ SubmitDbError

SpecResubmit == Init /\ [][NextResubmit]_vars

(* C23: over any sequence of append calls, the effects of a transaction    *)
(* reach the in-memory balances and supply at most once per tx_id, also    *)
(* when the transaction is submitted again after an append of it failed    *)
(* at the persistence step.                                                *)
C23_EffectsAtMostOncePerId ==
    \A id \in TxIds : apply_count[id] <= 1

----------------------------------------------------------------------------
(* Two transactions hashed side by side and the second one appended: what  *)
(* signable_bytes leaves out of the signed bytes                           *)

\* signed transfers, mints and burns of AddrA's or AddrB's money under
\* AddrA's public key, before they are signed
RetypeUnsigned ==
    [tx_id : {"t1"}, tx_type : {"Transfer", "Mint", "Burn"},
     from : {AddrA, AddrB}, to : {AddrB}, amount : {1, 2},
     metadata : {EmptyMeta}, timestamp : {Timestamp},
     signature : {SigEmpty}, pubkey : {PubHexA}]

\* the signatures the key pairs make over these transactions, and none
RetypeSigs ==
    {Sign(k, signable_bytes(t)) : k \in Keys, t \in RetypeUnsigned}
        \cup {SigEmpty}

RetypeTxs ==
    {[t EXCEPT !.signature = sg] : t \in RetypeUnsigned, sg \in RetypeSigs}

InitRetype ==
    /\ Fresh
    /\ calls = NoCalls
    /\ input \in [a : RetypeTxs, b : RetypeTxs]
    /\ output = NoOutput
    /\ apply_count = NoneApplied

\* a.signable_bytes(), a.hash(), b.signable_bytes(), b.hash(), then
\* ledger.append(b) on the fresh ledger
HashBothAppendSecond ==
    /\ output = NoOutput
    /\ output' = [a_bytes |-> signable_bytes(input.a),
                  b_bytes |-> signable_bytes(input.b),
                  a_hash  |-> hash(input.a),
                  b_hash  |-> hash(input.b)]
    /\ append(input.b, FALSE)
    /\ lastTx' = input.b
    /\ UNCHANGED <<opened, calls, input, apply_count>>

NextRetype == HashBothAppendSecond

SpecRetype == InitRetype /\ [][NextRetype]_vars

\* what the signature block of append can return
SignatureErrors == {"InvalidSignature", "InvalidTransaction"}

(* C24: signable_bytes, and so hash and the signature check of append, do  *)
(* not depend on tx_type or on the signature field: two transactions with  *)
(* the same tx_id, from, to, amount, timestamp, metadata and pubkey have   *)
(* the same signable_bytes and the same hash whatever their tx_type and    *)
(* signature are, and a signature that is valid for one of them passes the *)
(* signature check of append when it is carried by the other.              *)
C24_TypeAndSignatureUnsigned ==
    (output # NoOutput /\ SignedFields(input.a) = SignedFields(input.b)) =>
        /\ output.a_bytes = output.b_bytes
        /\ output.a_hash = output.b_hash
        /\ (Authentic(input.a) /\ input.b.signature = input.a.signature)
                => result \notin SignatureErrors

\* a signed transfer of AddrA carried over to a mint: same hash, and append
\* took the mint with the transfer's signature
C24_Witness ==
    /\ output # NoOutput
    /\ SignedFields(input.a) = SignedFields(input.b)
    /\ input.a.tx_type = "Transfer"
    /\ input.b.tx_type = "Mint"
    /\ Authentic(input.a)
    /\ input.b.signature = input.a.signature
    /\ output.a_hash = output.b_hash
    /\ lastTx = input.b
    /\ result = "Ok"
    /\ Len(db) = 1

----------------------------------------------------------------------------
(* Merkle proofs as a function of the leaf vector and the index            *)

\* every leaf vector of at most MaxLeaves leaves
LeafVectors == UNION {[1..n -> LeafHashes] : n \in 0..MaxLeaves}

InitMerkle ==
    /\ Fresh
    /\ calls = NoCalls
    /\ input \in [leaves : LeafVectors, index : 0..MaxLeaves]
    /\ output = NoOutput
    /\ apply_count = NoneApplied

\* tree = build(leaves); tree.proof(index); verify_proof(leaves[index], ..)
MerkleProve ==
    LET tree == build(input.leaves)
        pr   == proof(tree, input.index)
    IN  /\ output = NoOutput
        /\ output' = [root |-> root(tree),
                      proof |-> pr,
                      verified |->
                        /\ pr.err = "Ok"
                        /\ verify_proof(input.leaves[input.index + 1],
                                        pr.path, root(tree))]
        /\ UNCHANGED <<db, balances, total_minted, total_burned, tx_ids,
                       opened, lastTx, result, calls, input, apply_count>>

NextMerkle == MerkleProve

SpecMerkle == InitMerkle /\ [][NextMerkle]_vars

(* C19: for every non-empty leaf vector L, odd sizes included, and every   *)
(* index i < |L|, build(L).proof(i) succeeds and verify_proof(L[i],        *)
(* proof(i), root) is true; proof(i) with i >= |L| fails with              *)
(* IndexOutOfRange.                                                        *)
C19_ProofsVerify ==
    output # NoOutput =>
        IF input.index < Len(input.leaves)
        THEN /\ output.proof.err = "Ok"
             /\ output.verified
             /\ output.root = root(build(input.leaves))
        ELSE /\ output.proof.err = "IndexOutOfRange"
             /\ ~output.verified

\* the proof of the last leaf of an odd vector, which is paired with itself
\* on the first level and whose ancestor is paired with itself again
C19_Witness ==
    /\ output # NoOutput
    /\ Len(input.leaves) = MaxLeaves
    /\ Len(input.leaves) % 2 = 1
    /\ input.index = Len(input.leaves) - 1
    /\ output.verified
    /\ Len(output.proof.path) >= 2
    /\ output.proof.path[1].sibling = input.leaves[Len(input.leaves)]
    /\ output.proof.path[2].sibling = hash_pair(output.proof.path[1].sibling,
                                                output.proof.path[1].sibling)

====
